---- MODULE Spec2Model ----
(***************************************************************************)
(* A state-machine model of loner.py (solo): the sequential pipeline of    *)
(* main(), one action per straight-line block, and the three doublet       *)
(* functions as operators.                                                 *)
(*                                                                         *)
(* Encodings.                                                              *)
(*  - An optional value (Python None or a value) is a sequence of length   *)
(*    0 or 1: None == <<>>, Some(v) == <<v>>.                              *)
(*  - A rational option value (-r, -d) is a pair <<num, den>>, den > 0.    *)
(*  - A float64/float32 expression value is kept in half-count units       *)
(*    (the integer 2*v), which is exact for every value the three doublet  *)
(*    rules produce from integer counts.                                   *)
(*  - A classifier score is the numerator of a fraction over 4.            *)
(*  - Calls into numpy / scipy / scvi / sklearn are modelled at their call *)
(*    site in loner.py by the library's documented result; a result the    *)
(*    library leaves open (the order inside an argpartition, a random      *)
(*    draw, a trained model's scores) is a nondeterministic choice.        *)
(***************************************************************************)
EXTENDS Integers, Sequences, FiniteSets, TLC

VARIABLES
    pc,                 \* position of main() in the pipeline
    err,                \* name of the exception that ended the run, "" if none
    stdout,             \* messages printed so far
    trace,              \* pipeline stages entered so far, in order
    bound,              \* TRUE when the local scvi_data is bound
    X,                  \* scvi_data.X: one row of gene counts per cell
    labels,             \* scvi_data.labels
    num_cells,          \* num_cells
    known_doublets,     \* known_doublets (boolean mask), aliased by is_doublet
    known_input,        \* history: the mask as first bound (lines 123, 136)
    known_doublet_data, \* None, or Some(rows of the known doublets)
    singlet_X,          \* singlet_scvi_data.X
    seed,               \* options.seed, once read
    vae,                \* "init", "loaded" or "trained"
    vae_epochs,         \* calls of utrainer.train: <<n_epochs, lr>>
    doublet_type,       \* options.doublet_type once doublet_function is chosen
    doublet_depth,      \* options.doublet_depth
    num_doublets,       \* num_doublets
    X_doublets,         \* X_doublets
    di,                 \* rows of X_doublets filled so far
    doublet_labels,     \* doublet_data.labels
    classifier_labels,  \* classifier_data.labels
    clf_epochs,         \* calls of strainer.train
    order_score,        \* order_score[:, 1]
    expected,           \* options.expected_number_of_doublets, once read
    threshold,          \* None, or Some(threshold)
    is_loner_doublet,   \* order_score > threshold
    files               \* files written: name -> content

vars == <<pc, err, stdout, trace, bound, X, labels, num_cells, known_doublets,
          known_input, known_doublet_data, singlet_X, seed, vae, vae_epochs,
          doublet_type, doublet_depth, num_doublets, X_doublets, di,
          doublet_labels, classifier_labels, clf_epochs, order_score, expected,
          threshold, is_loner_doublet, files>>

-----------------------------------------------------------------------------
(* Bounds and input sets *)

MaxCells == 2
\* the runs explored simulate at most this many doublets
MaxDoublets == 2

Genes == 1 .. 2
Counts == 0 .. 1
Extensions == {".loom", ".h5ad", ".csv"}
Seeds == {<<>>, <<"">>, <<"seed/vae.pt">>}
Ratios == {<<-1, 1>>, <<0, 1>>, <<1, 2>>, <<1, 1>>, <<2, 1>>}
Depths == {<<1, 1>>}
SimDepths == {<<-1, 1>>, <<1, 2>>, <<1, 1>>, <<2, 1>>}
DoubletTypes == {"multinomial", "average", "sum"}
\* scores are numerators over 4: 1/4, 1/2, 3/4
ScoreLevels == 1 .. 3
\* threshold = .5, in quarters
DefaultThreshold == 2
VAEInitialEpochs == 2000
VAEDropEpochs == 500
ClassifierInitialEpochs == 1000
ClassifierDropEpochs == 300
Expected == {<<>>} \cup {<<e>> : e \in -1 .. (MaxCells + 1)}

None == <<>>
Some(v) == <<v>>

-----------------------------------------------------------------------------
(* Arithmetic and array helpers *)

\* Python int() of the rational a/b (b > 0): truncation toward zero.
Trunc(a, b) == IF a >= 0 THEN a \div b ELSE -((-a) \div b)

RECURSIVE SumSeq(_)
SumSeq(s) == IF s = <<>> THEN 0 ELSE Head(s) + SumSeq(Tail(s))

\* a[:n] for 0 <= n
SliceTo(a, n) == SubSeq(a, 1, IF n < Len(a) THEN n ELSE Len(a))

\* a[n:] for 0 <= n
SliceFrom(a, n) == SubSeq(a, (IF n < Len(a) THEN n ELSE Len(a)) + 1, Len(a))

\* a[mask] for a boolean mask of the same length
RECURSIVE MaskSelect(_, _)
MaskSelect(a, mask) ==
    IF a = <<>> THEN <<>>
    ELSE (IF Head(mask) THEN <<Head(a)>> ELSE <<>>)
         \o MaskSelect(Tail(a), Tail(mask))

Not(mask) == [c \in DOMAIN mask |-> ~mask[c]]

Save(f, name, content) ==
    [x \in DOMAIN f \cup {name} |-> IF x = name THEN content ELSE f[x]]

\* an integer count as a float value (half-count units)
Float(n) == 2 * n

Max(S) == CHOOSE m \in S : \A x \in S : x <= m

Range(f) == {f[x] : x \in DOMAIN f}

Truthy(opt) == opt # None /\ opt[1] # ""

-----------------------------------------------------------------------------
(* Library calls, by their results *)

\* scvi arrange_categories, applied by the GeneExpressionDataset constructor:
\* each label becomes its rank among the distinct labels present.
ArrangeCategories(l) ==
    [c \in DOMAIN l |-> Cardinality({v \in Range(l) : v < l[c]})]

\* a faulty variant: the labels stay as handed over (all 1)
make_gene_expression_dataset_raw(data) ==
    [X |-> data, labels |-> [c \in DOMAIN data |-> 1]]

\* labels = np.ones(...) handed to the GeneExpressionDataset constructor
make_gene_expression_dataset(data) ==
    [X |-> data, labels |-> ArrangeCategories([c \in DOMAIN data |-> 1])]

\* GeneExpressionDataset.concat_datasets(a, b, shared_labels=True)
concat_datasets(a_labels, b_labels) == ArrangeCategories(a_labels \o b_labels)

\* np.argpartition(a, kth) for 0 <= kth < len(a): every index order that puts
\* the element of sorted position kth in place, no larger ones before it and
\* no smaller ones after it (positions are 1-based here).
argpartition(a, kth) ==
    {idx \in [DOMAIN a -> DOMAIN a] :
        /\ \A m, n \in DOMAIN a : m # n => idx[m] # idx[n]
        /\ \A m \in DOMAIN a :
              /\ m < kth + 1 => a[idx[m]] <= a[idx[kth + 1]]
              /\ m > kth + 1 => a[idx[m]] >= a[idx[kth + 1]]}

-----------------------------------------------------------------------------
(* The doublet functions.  Each returns the set of its possible outcomes:   *)
(* [ok |-> TRUE, row |-> r] or [ok |-> FALSE, row |-> <<>>] (an exception). *)

Raised == [ok |-> FALSE, row |-> <<>>]
Returned(r) == [ok |-> TRUE, row |-> r]

\* a faulty variant: integer division of the summed counts
create_average_doublet_floor(Xs, i, j) ==
    {Returned([g \in Genes |-> Float((Xs[i][g] + Xs[j][g]) \div 2)])}

create_average_doublet(Xs, i, j) ==
    {Returned([g \in Genes |-> Float(Xs[i][g] + Xs[j][g]) \div 2])}

create_summed_doublet(Xs, i, j) ==
    {Returned([g \in Genes |-> Float(Xs[i][g] + Xs[j][g])])}

\* dd = int(doublet_depth * (cell_depths[i] + cell_depths[j]) / 2)
TargetDepth(depth, cell_depths, i, j) ==
    Trunc(depth[1] * (cell_depths[i] + cell_depths[j]), depth[2] * 2)

\* multinomial.rvs(n=dd, p=dp): dd < 0 raises; dp of two empty cells is 0/0
\* (NaN), which numpy either rejects or, as dd is 0 then, answers with zeros.
create_multinomial_doublet(Xs, i, j, depth, cell_depths) ==
    LET dp == [g \in Genes |-> Xs[i][g] + Xs[j][g]]
        dd == TargetDepth(depth, cell_depths, i, j)
    IN  IF dd < 0 THEN {Raised}
        ELSE IF SumSeq(dp) = 0
             THEN {Raised, Returned([g \in Genes |-> Float(0)])}
        ELSE {Returned([g \in Genes |-> Float(v[g])]) :
                v \in {w \in [Genes -> 0 .. dd] :
                         /\ SumSeq(w) = dd
                         /\ \A g \in Genes : dp[g] = 0 => w[g] = 0}}

doublet_function(type, Xs, i, j, depth, cell_depths) ==
    IF type = "average" THEN create_average_doublet(Xs, i, j)
    ELSE IF type = "sum" THEN create_summed_doublet(Xs, i, j)
    ELSE create_multinomial_doublet(Xs, i, j, depth, cell_depths)

-----------------------------------------------------------------------------
(* Inputs *)

\* the expression matrix of a data file of n cells (the pipeline's inputs)
PipelineData(n) == [c \in 1 .. n |-> [g \in Genes |-> IF g = 1 THEN 1 ELSE 0]]

\* every expression matrix of n cells over Genes with counts in Counts
Matrices(n) == [1 .. n -> [Genes -> Counts]]

Masks(n) == [1 .. n -> BOOLEAN]

\* -k absent, or the boolean column of the known-doublets file
KnownFiles == {None} \cup {Some(m) : m \in UNION {Masks(n) : n \in 1 .. MaxCells}}

EmptyFiles == [x \in {} |-> ""]

-----------------------------------------------------------------------------
(* main() *)

Init ==
    /\ pc = "load"
    /\ err = ""
    /\ stdout = <<>>
    /\ trace = <<>>
    /\ bound = FALSE
    /\ X = <<>>
    /\ labels = <<>>
    /\ num_cells = 0
    /\ known_doublets = <<>>
    /\ known_input = <<>>
    /\ known_doublet_data = None
    /\ singlet_X = <<>>
    /\ seed = None
    /\ vae = "init"
    /\ vae_epochs = <<>>
    /\ doublet_type = ""
    /\ doublet_depth = <<1, 1>>
    /\ num_doublets = 0
    /\ X_doublets = <<>>
    /\ di = 0
    /\ doublet_labels = <<>>
    /\ classifier_labels = <<>>
    /\ clf_epochs = <<>>
    /\ order_score = <<>>
    /\ expected = None
    /\ threshold = None
    /\ is_loner_doublet = <<>>
    /\ files = EmptyFiles

\* an uncaught exception ends the run
Crash(e) == pc' = "crashed" /\ err' = e

\* a faulty variant: an unrecognized extension stops the run with an error
LoadDataset_raise ==
    /\ pc = "load"
    /\ \E ext \in Extensions :
         IF ext \in {".loom", ".h5ad"}
         THEN /\ \E n \in 1 .. MaxCells :
                   /\ X' = PipelineData(n)
                   /\ labels' = [c \in 1 .. n |-> 0]
              /\ bound' = TRUE
              /\ stdout' = stdout
              /\ pc' = "shape"
              /\ err' = err
         ELSE /\ stdout' = Append(stdout, "Unrecognized file format")
              /\ Crash("ValueError")
              /\ UNCHANGED <<bound, X, labels>>
    /\ trace' = Append(trace, "load")
    /\ UNCHANGED <<num_cells, known_doublets, known_input,
                   known_doublet_data, singlet_X, seed, vae, vae_epochs,
                   doublet_type, doublet_depth, num_doublets, X_doublets, di,
                   doublet_labels, classifier_labels, clf_epochs, order_score,
                   expected, threshold, is_loner_doublet, files>>

\* lines 110-116: read loom/anndata by extension
LoadDataset ==
    /\ pc = "load"
    /\ \E ext \in Extensions :
         IF ext \in {".loom", ".h5ad"}
         THEN /\ \E n \in 1 .. MaxCells :
                   /\ X' = PipelineData(n)
                   /\ labels' = [c \in 1 .. n |-> 0]
              /\ bound' = TRUE
              /\ stdout' = stdout
         ELSE /\ stdout' = Append(stdout, "Unrecognized file format")
              /\ UNCHANGED <<bound, X, labels>>
    /\ pc' = "shape"
    /\ trace' = Append(trace, "load")
    /\ UNCHANGED <<err, num_cells, known_doublets, known_input,
                   known_doublet_data, singlet_X, seed, vae, vae_epochs,
                   doublet_type, doublet_depth, num_doublets, X_doublets, di,
                   doublet_labels, classifier_labels, clf_epochs, order_score,
                   expected, threshold, is_loner_doublet, files>>

\* line 118: num_cells, num_genes = scvi_data.X.shape
ReadShape ==
    /\ pc = "shape"
    /\ IF bound
       THEN /\ num_cells' = Len(X)
            /\ pc' = "split"
            /\ err' = err
       ELSE /\ Crash("UnboundLocalError")
            /\ num_cells' = num_cells
    /\ UNCHANGED <<stdout, trace, bound, X, labels, known_doublets, known_input,
                   known_doublet_data, singlet_X, seed, vae, vae_epochs,
                   doublet_type, doublet_depth, num_doublets, X_doublets, di,
                   doublet_labels, classifier_labels, clf_epochs, order_score,
                   expected, threshold, is_loner_doublet, files>>

\* lines 120-138: split the known doublets from the singlets
SplitKnownDoublets ==
    /\ pc = "split"
    /\ trace' = Append(trace, "split")
    /\ \E k \in KnownFiles :
         IF k = None
         THEN /\ known_doublet_data' = None
              /\ known_doublets' = [c \in 1 .. num_cells |-> FALSE]
              /\ known_input' = known_doublets'
              /\ singlet_X' = X
              /\ stdout' = stdout
              /\ pc' = "vae"
              /\ err' = err
         ELSE /\ stdout' = stdout \o
                   <<"Removing known doublets for in silico doublet generation",
                     "Make sure known doublets are in the same order as your data">>
              /\ known_doublets' = k[1]
              /\ known_input' = k[1]
              /\ IF Len(k[1]) = Len(X)
                 THEN /\ known_doublet_data' =
                           Some(make_gene_expression_dataset(MaskSelect(X, k[1])).X)
                      /\ singlet_X' =
                           make_gene_expression_dataset(MaskSelect(X, Not(k[1]))).X
                      /\ pc' = "vae"
                      /\ err' = err
                 ELSE /\ Crash("AssertionError")
                      /\ UNCHANGED <<known_doublet_data, singlet_X>>
    /\ UNCHANGED <<bound, X, labels, num_cells, seed, vae, vae_epochs,
                   doublet_type, doublet_depth, num_doublets, X_doublets, di,
                   doublet_labels, classifier_labels, clf_epochs, order_score,
                   expected, threshold, is_loner_doublet, files>>

\* lines 163-179: options.seed is truthy, the VAE is loaded from it
LoadVAE ==
    /\ pc = "vae"
    /\ \E s \in Seeds :
         /\ Truthy(s)
         /\ seed' = s
    /\ vae' = "loaded"
    /\ \E isfile \in BOOLEAN :
         files' = IF isfile THEN Save(files, "latent.npy", "copied") ELSE files
    /\ pc' = "count"
    /\ trace' = Append(trace, "vae_load")
    /\ UNCHANGED <<err, stdout, bound, X, labels, num_cells, known_doublets,
                   known_input, known_doublet_data, singlet_X, vae_epochs,
                   doublet_type, doublet_depth, num_doublets, X_doublets, di,
                   doublet_labels, classifier_labels, clf_epochs, order_score,
                   expected, threshold, is_loner_doublet>>

\* lines 163-165, 181-193: options.seed is falsy, first training phase
TrainVAEInitial ==
    /\ pc = "vae"
    /\ \E s \in Seeds :
         /\ ~Truthy(s)
         /\ seed' = s
    /\ vae' = "training"
    /\ vae_epochs' = Append(vae_epochs, <<VAEInitialEpochs, <<1, 1>>>>)
    /\ pc' = "vae_drop"
    /\ trace' = Append(trace, "vae_train")
    /\ UNCHANGED <<err, stdout, bound, X, labels, num_cells, known_doublets,
                   known_input, known_doublet_data, singlet_X,
                   doublet_type, doublet_depth, num_doublets, X_doublets, di,
                   doublet_labels, classifier_labels, clf_epochs, order_score,
                   expected, threshold, is_loner_doublet, files>>

\* a faulty variant: the second phase keeps the learning rate
TrainVAEDrop_same_rate ==
    /\ pc = "vae_drop"
    /\ vae_epochs' = Append(vae_epochs, <<VAEDropEpochs, <<1, 1>>>>)
    /\ pc' = "vae_save"
    /\ UNCHANGED <<err, stdout, trace, bound, X, labels, num_cells,
                   known_doublets, known_input, known_doublet_data, singlet_X,
                   seed, vae, doublet_type, doublet_depth, num_doublets,
                   X_doublets, di, doublet_labels, classifier_labels,
                   clf_epochs, order_score, expected, threshold,
                   is_loner_doublet, files>>

\* lines 196-197: drop the learning rate and continue
TrainVAEDrop ==
    /\ pc = "vae_drop"
    /\ vae_epochs' = Append(vae_epochs, <<VAEDropEpochs, <<1, 10>>>>)
    /\ pc' = "vae_save"
    /\ UNCHANGED <<err, stdout, trace, bound, X, labels, num_cells,
                   known_doublets, known_input, known_doublet_data, singlet_X,
                   seed, vae, doublet_type, doublet_depth, num_doublets,
                   X_doublets, di, doublet_labels, classifier_labels,
                   clf_epochs, order_score, expected, threshold,
                   is_loner_doublet, files>>

\* lines 200-208: save the VAE and the latent representation
SaveVAE ==
    /\ pc = "vae_save"
    /\ files' = Save(Save(files, "vae.pt", "state_dict"), "latent.npy", "latent")
    /\ vae' = "trained"
    /\ pc' = "count"
    /\ UNCHANGED <<err, stdout, trace, bound, X, labels, num_cells,
                   known_doublets, known_input, known_doublet_data, singlet_X,
                   seed, vae_epochs, doublet_type, doublet_depth, num_doublets,
                   X_doublets, di, doublet_labels, classifier_labels,
                   clf_epochs, order_score, expected, threshold,
                   is_loner_doublet>>

\* line 214: cell_depths = singlet_scvi_data.X.sum(axis=1)
cell_depths == [c \in DOMAIN singlet_X |-> SumSeq(singlet_X[c])]

\* lines 215-218: int(doublet_ratio * singlet_num_cells), less the known ones
NumDoublets(ratio, singlets, known_data) ==
    Trunc(ratio[1] * Len(singlets), ratio[2])
      - (IF known_data = None THEN 0 ELSE Len(known_data[1]))

\* lines 214-220: the number of doublets to simulate
CountDoublets ==
    /\ pc = "count"
    /\ trace' = Append(trace, "simulate")
    /\ \E r \in Ratios :
         /\ NumDoublets(r, singlet_X, known_doublet_data) <= MaxDoublets
         /\ num_doublets' = NumDoublets(r, singlet_X, known_doublet_data)
    /\ IF known_doublet_data # None /\ ~(num_doublets' >= 0)
       THEN Crash("AssertionError")
       ELSE pc' = "allocate" /\ err' = err
    /\ UNCHANGED <<stdout, bound, X, labels, num_cells, known_doublets,
                   known_input, known_doublet_data, singlet_X, seed, vae,
                   vae_epochs, doublet_type, doublet_depth, X_doublets, di,
                   doublet_labels, classifier_labels, clf_epochs, order_score,
                   expected, threshold, is_loner_doublet, files>>

\* lines 221-231: allocate X_doublets and choose the doublet function
AllocateDoublets ==
    /\ pc = "allocate"
    /\ IF num_doublets < 0
       THEN /\ Crash("ValueError")
            /\ UNCHANGED <<X_doublets, doublet_type, doublet_depth>>
       ELSE /\ X_doublets' = [d \in 1 .. num_doublets |-> [g \in Genes |-> Float(0)]]
            /\ \E t \in DoubletTypes : doublet_type' = t
            /\ \E d \in Depths : doublet_depth' = d
            /\ pc' = "simulate"
            /\ err' = err
    /\ di' = 0
    /\ UNCHANGED <<stdout, trace, bound, X, labels, num_cells, known_doublets,
                   known_input, known_doublet_data, singlet_X, seed, vae,
                   vae_epochs, num_doublets, doublet_labels, classifier_labels,
                   clf_epochs, order_score, expected, threshold,
                   is_loner_doublet, files>>

\* lines 233-241: one iteration of the simulation loop
SimulateDoublet ==
    /\ pc = "simulate"
    /\ di < num_doublets
    /\ IF Len(singlet_X) = 0
       THEN /\ Crash("ValueError")
            /\ UNCHANGED <<X_doublets, di>>
       ELSE \E i, j \in 1 .. Len(singlet_X) :
              \E out \in doublet_function(doublet_type, singlet_X, i, j,
                                          doublet_depth, cell_depths) :
                IF out.ok
                THEN /\ X_doublets' = [X_doublets EXCEPT ![di + 1] = out.row]
                     /\ di' = di + 1
                     /\ UNCHANGED <<pc, err>>
                ELSE /\ Crash("ValueError")
                     /\ UNCHANGED <<X_doublets, di>>
    /\ UNCHANGED <<stdout, trace, bound, X, labels, num_cells, known_doublets,
                   known_input, known_doublet_data, singlet_X, seed, vae,
                   vae_epochs, doublet_type, doublet_depth, num_doublets,
                   doublet_labels, classifier_labels, clf_epochs, order_score,
                   expected, threshold, is_loner_doublet, files>>

\* lines 245-256: label the simulated doublets and concatenate
MergeDatasets ==
    /\ pc = "simulate"
    /\ di = num_doublets
    /\ doublet_labels' =
         [c \in DOMAIN X_doublets |->
            make_gene_expression_dataset(X_doublets).labels[c] + 1]
    /\ labels' = [c \in DOMAIN labels |->
                    IF known_doublets[c] THEN labels[c] + 1 ELSE labels[c]]
    /\ classifier_labels' = concat_datasets(labels', doublet_labels')
    /\ pc' = "assert"
    /\ trace' = Append(trace, "build")
    /\ UNCHANGED <<err, stdout, bound, X, num_cells, known_doublets,
                   known_input, known_doublet_data, singlet_X, seed, vae,
                   vae_epochs, doublet_type, doublet_depth, num_doublets,
                   X_doublets, di, clf_epochs, order_score, expected,
                   threshold, is_loner_doublet, files>>

\* line 258: assert(len(np.unique(classifier_data.labels.flatten())) == 2)
AssertTwoLabels ==
    /\ pc = "assert"
    /\ IF Cardinality(Range(classifier_labels)) = 2
       THEN pc' = "classifier" /\ err' = err
       ELSE Crash("AssertionError")
    /\ UNCHANGED <<stdout, trace, bound, X, labels, num_cells, known_doublets,
                   known_input, known_doublet_data, singlet_X, seed, vae,
                   vae_epochs, doublet_type, doublet_depth, num_doublets,
                   X_doublets, di, doublet_labels, classifier_labels,
                   clf_epochs, order_score, expected, threshold,
                   is_loner_doublet, files>>

\* lines 264-280: build the classifier, first training phase
TrainClassifierInitial ==
    /\ pc = "classifier"
    /\ clf_epochs' = Append(clf_epochs, <<ClassifierInitialEpochs, <<1, 1>>>>)
    /\ pc' = "clf_drop"
    /\ trace' = Append(trace, "classifier")
    /\ UNCHANGED <<err, stdout, bound, X, labels, num_cells, known_doublets,
                   known_input, known_doublet_data, singlet_X, seed, vae,
                   vae_epochs, doublet_type, doublet_depth, num_doublets,
                   X_doublets, di, doublet_labels, classifier_labels,
                   order_score, expected, threshold, is_loner_doublet, files>>

\* lines 283-285: drop the learning rate, continue, save the classifier
TrainClassifierDrop ==
    /\ pc = "clf_drop"
    /\ clf_epochs' = Append(clf_epochs, <<ClassifierDropEpochs, <<1, 10>>>>)
    /\ files' = Save(files, "classifier.pt", "state_dict")
    /\ pc' = "evaluate"
    /\ UNCHANGED <<err, stdout, trace, bound, X, labels, num_cells,
                   known_doublets, known_input, known_doublet_data, singlet_X,
                   seed, vae, vae_epochs, doublet_type, doublet_depth,
                   num_doublets, X_doublets, di, doublet_labels,
                   classifier_labels, order_score, expected, threshold,
                   is_loner_doublet>>

\* lines 291-340: accuracy, AUROC and the ROC / accuracy plots; roc_auc_score
\* raises when the random train or test split holds one class only
Evaluate ==
    /\ pc = "evaluate"
    /\ \E both_classes \in BOOLEAN :
         IF both_classes
         THEN /\ files' = Save(Save(files, "roc.pdf", "plot"), "accuracy.pdf", "plot")
              /\ pc' = "score"
              /\ err' = err
         ELSE /\ Crash("ValueError")
              /\ files' = files
    /\ UNCHANGED <<stdout, trace, bound, X, labels, num_cells, known_doublets,
                   known_input, known_doublet_data, singlet_X, seed, vae,
                   vae_epochs, doublet_type, doublet_depth, num_doublets,
                   X_doublets, di, doublet_labels, classifier_labels,
                   clf_epochs, order_score, expected, threshold,
                   is_loner_doublet>>

\* lines 343-346: one soft score per cell of classifier_data, in order
WriteScores ==
    /\ pc = "score"
    /\ \E s \in [DOMAIN classifier_labels -> ScoreLevels] : order_score' = s
    /\ files' = Save(Save(files, "scores.npy", SliceTo(order_score', num_cells)),
                     "scores_sim.npy", SliceFrom(order_score', num_cells))
    /\ pc' = "threshold"
    /\ trace' = Append(trace, "score")
    /\ UNCHANGED <<err, stdout, bound, X, labels, num_cells, known_doublets,
                   known_input, known_doublet_data, singlet_X, seed, vae,
                   vae_epochs, doublet_type, doublet_depth, num_doublets,
                   X_doublets, di, doublet_labels, classifier_labels,
                   clf_epochs, expected, threshold, is_loner_doublet>>

\* a faulty variant: a score equal to the threshold is called too
IsAbove_or_equal(score, thr) == score >= thr

\* line 361: order_score > threshold
IsAbove(score, thr) == score > thr

\* lines 349-361: the threshold, from -e when given, and the calls it yields
ChooseThreshold ==
    /\ pc = "threshold"
    /\ \E e \in Expected : expected' = e
    /\ IF expected' = None
       THEN /\ threshold' = Some(DefaultThreshold)
            /\ stdout' = stdout
       ELSE LET loner_scores == SliceTo(order_score, num_cells)
                k == Len(loner_scores) - expected'[1]
            IN  /\ stdout' = IF 2 * expected'[1] > Len(loner_scores)
                             THEN Append(stdout, "Make sure you actually expect more than half your cells to be doublets")
                             ELSE stdout
                /\ IF ~(k > 0) \/ k >= Len(loner_scores)
                   THEN threshold' = None
                   ELSE \E idx \in argpartition(loner_scores, k) :
                          threshold' =
                            Some(Max({loner_scores[idx[m]] : m \in 1 .. k}))
    /\ IF threshold' = None
       THEN /\ Crash(IF Len(SliceTo(order_score, num_cells)) - expected'[1] > 0
                     THEN "ValueError" ELSE "AssertionError")
            /\ is_loner_doublet' = is_loner_doublet
       ELSE /\ is_loner_doublet' =
                 [c \in DOMAIN order_score |-> IsAbove(order_score[c], threshold'[1])]
            /\ pc' = "calls"
            /\ err' = err
    /\ UNCHANGED <<trace, bound, X, labels, num_cells, known_doublets,
                   known_input, known_doublet_data, singlet_X, seed, vae,
                   vae_epochs, doublet_type, doublet_depth, num_doublets,
                   X_doublets, di, doublet_labels, classifier_labels,
                   clf_epochs, order_score, files>>

\* line 386: strainer.compute_predictions(), the class of the larger score
compute_predictions(scores) ==
    [c \in DOMAIN scores |-> IF scores[c] > DefaultThreshold THEN 1 ELSE 0]

\* lines 379-381: is_doublet aliases known_doublets; mark the new doublets
MarkDoublets(is_doublet, is_loner, n) ==
    [c \in DOMAIN is_doublet |->
       IF ~is_doublet[c] /\ SliceTo(is_loner, n)[c] THEN TRUE ELSE is_doublet[c]]

\* a faulty variant: the arrays are cut at the number of singlets
WriteCalls_singlets ==
    /\ pc = "calls"
    /\ known_doublets' = MarkDoublets(known_doublets, is_loner_doublet, num_cells)
    /\ LET order_pred == compute_predictions(order_score)
           f1 == Save(files, "train_v_test_dist.pdf", "plot")
           f2 == Save(f1, "real_cells_dist.pdf", "plot")
           f3 == Save(f2, "is_doublet.npy", SliceTo(known_doublets', Len(singlet_X)))
           f4 == Save(f3, "is_doublet_sim.npy", SliceFrom(known_doublets', Len(singlet_X)))
           f5 == Save(f4, "preds.npy", SliceTo(order_pred, Len(singlet_X)))
       IN  files' = Save(f5, "preds_sim.npy", SliceFrom(order_pred, Len(singlet_X)))
    /\ pc' = "done"
    /\ UNCHANGED <<err, stdout, trace, bound, X, labels, num_cells,
                   known_input, known_doublet_data, singlet_X, seed, vae,
                   vae_epochs, doublet_type, doublet_depth, num_doublets,
                   X_doublets, di, doublet_labels, classifier_labels,
                   clf_epochs, order_score, expected, threshold,
                   is_loner_doublet>>

\* lines 364-388: distribution plots, final calls and hard predictions
WriteCalls ==
    /\ pc = "calls"
    /\ known_doublets' = MarkDoublets(known_doublets, is_loner_doublet, num_cells)
    /\ LET order_pred == compute_predictions(order_score)
           f1 == Save(files, "train_v_test_dist.pdf", "plot")
           f2 == Save(f1, "real_cells_dist.pdf", "plot")
           f3 == Save(f2, "is_doublet.npy", SliceTo(known_doublets', num_cells))
           f4 == Save(f3, "is_doublet_sim.npy", SliceFrom(known_doublets', num_cells))
           f5 == Save(f4, "preds.npy", SliceTo(order_pred, num_cells))
       IN  files' = Save(f5, "preds_sim.npy", SliceFrom(order_pred, num_cells))
    /\ pc' = "done"
    /\ UNCHANGED <<err, stdout, trace, bound, X, labels, num_cells,
                   known_input, known_doublet_data, singlet_X, seed, vae,
                   vae_epochs, doublet_type, doublet_depth, num_doublets,
                   X_doublets, di, doublet_labels, classifier_labels,
                   clf_epochs, order_score, expected, threshold,
                   is_loner_doublet>>

Next ==
    \/ LoadDataset
    \/ ReadShape
    \/ SplitKnownDoublets
    \/ LoadVAE
    \/ TrainVAEInitial
    \/ TrainVAEDrop
    \/ SaveVAE
    \/ CountDoublets
    \/ AllocateDoublets
    \/ SimulateDoublet
    \/ MergeDatasets
    \/ AssertTwoLabels
    \/ TrainClassifierInitial
    \/ TrainClassifierDrop
    \/ Evaluate
    \/ WriteScores
    \/ ChooseThreshold
    \/ WriteCalls

Spec == Init /\ [][Next]_vars

-----------------------------------------------------------------------------
(* The doublet functions over every small expression matrix: the runs of    *)
(* main() on a .loom file with a trained VAE, taken up where the simulation *)
(* loop starts (line 233).                                                  *)

InitSim ==
    /\ pc = "simulate"
    /\ err = ""
    /\ trace = <<"load", "split", "vae_train", "simulate">>
    /\ bound = TRUE
    /\ \E n \in 1 .. MaxCells :
         /\ X \in Matrices(n)
         /\ known_input \in Masks(n)
    /\ labels = [c \in DOMAIN X |-> 0]
    /\ num_cells = Len(X)
    /\ known_doublets = known_input
    /\ known_doublet_data \in
         {None, Some(make_gene_expression_dataset(MaskSelect(X, known_input)).X)}
    /\ known_doublet_data = None => known_input = [c \in DOMAIN X |-> FALSE]
    /\ stdout = IF known_doublet_data = None THEN <<>>
                ELSE <<"Removing known doublets for in silico doublet generation",
                       "Make sure known doublets are in the same order as your data">>
    /\ singlet_X = IF known_doublet_data = None THEN X
                   ELSE make_gene_expression_dataset(
                            MaskSelect(X, Not(known_input))).X
    /\ seed = None
    /\ vae = "trained"
    /\ vae_epochs = <<<<VAEInitialEpochs, <<1, 1>>>>, <<VAEDropEpochs, <<1, 10>>>>>>
    /\ files = Save(Save(EmptyFiles, "vae.pt", "state_dict"), "latent.npy", "latent")
    /\ doublet_type \in DoubletTypes
    /\ doublet_depth \in SimDepths
    /\ \E r \in Ratios :
         num_doublets = NumDoublets(r, singlet_X, known_doublet_data)
    /\ num_doublets >= 0
    /\ num_doublets <= MaxDoublets
    /\ X_doublets = [d \in 1 .. num_doublets |-> [g \in Genes |-> Float(0)]]
    /\ di = 0
    /\ doublet_labels = <<>>
    /\ classifier_labels = <<>>
    /\ clf_epochs = <<>>
    /\ order_score = <<>>
    /\ expected = None
    /\ threshold = None
    /\ is_loner_doublet = <<>>

NextSim == SimulateDoublet

SpecSim == InitSim /\ [][NextSim]_vars

-----------------------------------------------------------------------------
(* Properties *)

Entered(stage) == \E k \in DOMAIN trace : trace[k] = stage

Written(name) == name \in DOMAIN files

\* the cells of the input file that the -k file does not mark
Unmarked == {c \in 1 .. num_cells : ~known_input[c]}

\* C1: the number of synthetic doublets is never negative where X_doublets is
\* allocated and the simulation loop runs, for every ratio, with or without
\* a known-doublets file.
C1_NumDoubletsNonNegative ==
    pc \in {"allocate", "simulate"} => num_doublets >= 0

\* C1, the guarded branch alone: with a known-doublets file the assertion of
\* line 220 keeps a negative count from reaching the allocation.
C1_GuardedWithKnownFile ==
    (pc \in {"allocate", "simulate"} /\ known_doublet_data # None)
        => num_doublets >= 0

\* C2: in every run that reaches the concatenation, the combined labels have
\* exactly two distinct values (the assertion of line 258 holds), for every
\* number of simulated doublets and with or without known doublets.
C2_TwoLabelValues ==
    Entered("build") => Cardinality(Range(classifier_labels)) = 2

\* C2, the runs with a doublet of either kind: two label values whenever a
\* doublet was simulated or the -k file marks one.
C2_TwoLabelValuesWithDoublets ==
    (Entered("build") /\ (num_doublets > 0 \/ Unmarked # 1 .. num_cells))
        => Cardinality(Range(classifier_labels)) = 2

\* C3: once the doublet dataset is built and its labels incremented, every
\* synthetic doublet carries label 1 and every real cell that is not a known
\* doublet carries label 0, in doublet_data, scvi_data and classifier_data.
C3_Labels ==
    Entered("build") =>
        /\ Len(doublet_labels) = num_doublets
        /\ \A d \in 1 .. num_doublets : doublet_labels[d] = 1
        /\ \A c \in Unmarked : labels[c] = 0
        /\ Len(classifier_labels) = num_cells + num_doublets
        /\ \A c \in Unmarked : classifier_labels[c] = 0
        /\ \A d \in 1 .. num_doublets : classifier_labels[num_cells + d] = 1

C3_Witness ==
    /\ pc = "clf_drop"
    /\ num_doublets > 0
    /\ Unmarked # {}
    /\ Unmarked # 1 .. num_cells

\* C4: after a complete run scores.npy, is_doublet.npy and preds.npy each
\* hold exactly one entry per cell of the input file.
C4_OutputLengths ==
    pc = "done" =>
        /\ num_cells = Len(X)
        /\ Len(files["scores.npy"]) = Len(X)
        /\ Len(files["is_doublet.npy"]) = Len(X)
        /\ Len(files["preds.npy"]) = Len(X)

C4_Witness ==
    /\ pc = "done"
    /\ known_doublet_data # None
    /\ Unmarked # 1 .. num_cells
    /\ num_doublets > 0

\* C5: an unrecognized extension prints 'Unrecognized file format' and the run
\* goes on past loading with no dataset bound; it ends at the first use of
\* the dataset, having trained no model and written no file.
C5_UnrecognizedFormat ==
    /\ (pc # "load" /\ ~bound) =>
          \E k \in DOMAIN stdout : stdout[k] = "Unrecognized file format"
    /\ (\E k \in DOMAIN stdout : stdout[k] = "Unrecognized file format") =>
          /\ ~bound
          /\ pc \in {"shape", "crashed"}
          /\ pc = "crashed" => err = "UnboundLocalError"
          /\ vae = "init" /\ vae_epochs = <<>> /\ clf_epochs = <<>>
          /\ files = EmptyFiles

C5_Witness ==
    /\ pc = "crashed"
    /\ err = "UnboundLocalError"
    /\ stdout = <<"Unrecognized file format">>

StageIndex(stage) ==
    CASE stage = "load" -> 1
      [] stage = "split" -> 2
      [] stage \in {"vae_load", "vae_train"} -> 3
      [] stage = "simulate" -> 4
      [] stage = "build" -> 5
      [] stage = "classifier" -> 6
      [] stage = "score" -> 7

\* the stages run in the fixed order, none skipped, each at most once
StagesInOrder == \A k \in DOMAIN trace : StageIndex(trace[k]) = k

TrainedPhases ==
    <<<<VAEInitialEpochs, <<1, 1>>>>, <<VAEDropEpochs, <<1, 10>>>>>>

\* what holds of the VAE stage when the VAE is loaded (given) or trained
VAEObtainedAs(given) ==
    (Entered("vae_load") \/ Entered("vae_train")) =>
        IF given
        THEN /\ Entered("vae_load")
             /\ vae = "loaded"
             /\ vae_epochs = <<>>
             /\ ~Written("vae.pt")
        ELSE /\ Entered("vae_train")
             /\ vae_epochs = SubSeq(TrainedPhases, 1, Len(vae_epochs))
             /\ vae = "trained" <=> Written("vae.pt")
             /\ vae = "trained" =>
                   vae_epochs = TrainedPhases /\ Written("latent.npy")
             /\ pc \notin {"vae", "vae_drop", "vae_save"} => vae = "trained"

ClassifierAfterVAE == clf_epochs # <<>> => vae \in {"loaded", "trained"}

\* C6 as stated: fixed stage order, each stage at most once; the VAE is
\* loaded when -s is given and trained (2000 epochs, then 500 at a tenth of
\* the learning rate, then vae.pt and latent.npy) when it is absent; the
\* classifier is never trained before that.
C6_AsStated ==
    /\ StagesInOrder
    /\ VAEObtainedAs(seed # None)
    /\ ClassifierAfterVAE

\* C6 amended: as C6, with the VAE loaded when -s is given with a non-empty
\* value and trained when -s is absent or empty.
C6_Stages ==
    /\ StagesInOrder
    /\ VAEObtainedAs(seed # None /\ seed # <<"">>)
    /\ ClassifierAfterVAE

C6_Witness ==
    /\ pc = "done"
    /\ seed = <<"seed/vae.pt">>
    /\ Len(clf_epochs) = 2

\* the row follows the rule of the selected type for the input cells a and b
\* (a row is in half-counts: the sum is 2 * both, the average is both)
FollowsRule(row, a, b) ==
    LET both == [g \in Genes |-> X[a][g] + X[b][g]]
        target == Trunc(doublet_depth[1] * (SumSeq(X[a]) + SumSeq(X[b])),
                        2 * doublet_depth[2])
    IN  CASE doublet_type = "sum" ->
               \A g \in Genes : row[g] = 2 * both[g]
          [] doublet_type = "average" ->
               \A g \in Genes : row[g] = both[g]
          [] doublet_type = "multinomial" ->
               /\ SumSeq(row) = 2 * target
               /\ \A g \in Genes : both[g] = 0 => row[g] = 0

\* C7: every row the simulation loop fills is derived from two cells of the
\* input that are not known doublets (possibly the same cell) by the rule of
\* the selected type: the sum, the average, or a multinomial draw whose total
\* is int(doublet_depth * (depth_i + depth_j) / 2) and that is zero wherever
\* both cells are.
C7_DoubletRule ==
    [][di' = di + 1 =>
         \E a, b \in Unmarked : FollowsRule(X_doublets'[di'], a, b)]_vars

C7_Witness ==
    /\ doublet_type = "multinomial"
    /\ doublet_depth = <<2, 1>>
    /\ di >= 1
    /\ SumSeq(X_doublets[di]) > 0
    /\ Unmarked # 1 .. num_cells

\* the threshold stage has run with -e read
ThresholdStageDone == order_score # <<>> /\ pc # "threshold"

\* v is the largest of the k smallest of the scores
LargestOfSmallest(scores, k, v) ==
    /\ v \in Range(scores)
    /\ Cardinality({c \in DOMAIN scores : scores[c] < v}) < k
    /\ Cardinality({c \in DOMAIN scores : scores[c] <= v}) >= k

ThresholdFor(e) ==
    LET real == SliceTo(order_score, num_cells)
        above == {c \in DOMAIN real : real[c] > threshold[1]}
    IN  /\ pc # "crashed"
        /\ threshold # None
        /\ LargestOfSmallest(real, num_cells - e, threshold[1])
        /\ Cardinality(above) <= e
        /\ Cardinality(Range(real)) = num_cells => Cardinality(above) = e

\* C8: every -e value e with 0 <= e < n passes the assertion and yields the
\* largest of the n - e smallest real-cell scores as threshold, so that at
\* most e real cells score above it (exactly e when the scores are
\* distinct); without -e the threshold is 0.5.
C8_Threshold ==
    ThresholdStageDone =>
        /\ expected = None => (pc # "crashed" /\ threshold = Some(DefaultThreshold))
        /\ (expected # None /\ 0 <= expected[1] /\ expected[1] < num_cells)
              => ThresholdFor(expected[1])

\* C8, for 1 <= e < n, where np.argpartition accepts kth = n - e.
C8_ThresholdPositiveExpected ==
    ThresholdStageDone =>
        /\ expected = None => (pc # "crashed" /\ threshold = Some(DefaultThreshold))
        /\ (expected # None /\ 1 <= expected[1] /\ expected[1] < num_cells)
              => ThresholdFor(expected[1])

\* C9: the call written to is_doublet.npy for a real cell is true exactly
\* when the cell is a known doublet or its score is strictly above the
\* threshold.
C9_FinalCalls ==
    pc = "done" =>
        \A c \in 1 .. num_cells :
            files["is_doublet.npy"][c]
                <=> (known_input[c] \/ order_score[c] > threshold[1])

C9_Witness ==
    /\ pc = "done"
    /\ \E c \in 1 .. num_cells :
         known_input[c] /\ order_score[c] <= threshold[1]
    /\ \E c \in 1 .. num_cells :
         ~known_input[c] /\ order_score[c] = threshold[1]

\* C10: scores_sim.npy, is_doublet_sim.npy and preds_sim.npy each hold
\* exactly num_doublets entries in every complete run.
C10_SimOutputLengths ==
    pc = "done" =>
        /\ Len(files["scores_sim.npy"]) = num_doublets
        /\ Len(files["is_doublet_sim.npy"]) = num_doublets
        /\ Len(files["preds_sim.npy"]) = num_doublets

\* C10, the two arrays sliced from the scores of all cells.
C10_ScoreAndPredLengths ==
    pc = "done" =>
        /\ Len(files["scores_sim.npy"]) = num_doublets
        /\ Len(files["preds_sim.npy"]) = num_doublets
        /\ files["is_doublet_sim.npy"] = <<>>

====
